---------------------------- MODULE Spec2Model ----------------------------
(***************************************************************************)
(* A model of SpSnippet.js: the list-item CRUD functions, deleteFile,      *)
(* getCurrentUser and uploadFile, together with the services they call.    *)
(*                                                                         *)
(* JavaScript strings are sequences of chunks (one TLA+ string per chunk;  *)
(* a chunk is a character or a piece of markup), so that concatenation is  *)
(* \o and a conversion or a parse works on what the string holds.          *)
(***************************************************************************)
EXTENDS Integers, Sequences, FiniteSets, TLC

VARIABLES
    isAsync,    \* the global `isAsync` (assigned without var, lines 85 and 373)
    last,       \* the most recent finished call: function, arguments, response, return value
    pending,    \* asynchronous GetListItems requests in flight
    done,       \* asynchronous requests whose completefunc has run, with the handler's invocations
    store,      \* the rows a storing list service holds: id -> (column -> value)
    nextId,     \* the identifier the storing service gives to the next new row
    prev,       \* history: the call before a read, and the row it changed as it was before
    filereader, \* the global `filereader` (assigned without var, line 281): index into readers, 0 before any
    readers,    \* the FileReader objects made so far
    uploads,    \* the uploadFile calls so far: what the onload closure of each holds
    stack,      \* the uploadFile call that is running, 0 when the event loop is idle
    data,       \* the global `data` (line 284)
    n,          \* the global `n` (line 285)
    posts,      \* the $.ajax requests posted to Copy.asmx
    log         \* callbacks invoked, console messages and uncaught exceptions, in order

serviceVars == <<store, nextId, prev>>
uploadVars == <<filereader, readers, uploads, stack, data, n, posts, log>>
vars == <<isAsync, last, pending, done, serviceVars, uploadVars>>

(***************************************************************************)
(* Bounds of the model.                                                    *)
(***************************************************************************)
MaxRows == 2        \* z:row elements in one GetListItems response
MaxCodes == 2       \* ErrorCode elements in one deleteFile response
MaxRequests == 2    \* asynchronous requests issued in one behaviour
MaxItems == 2       \* rows the storing service creates in one behaviour
MaxUploads == 2     \* uploadFile calls in one behaviour

(***************************************************************************)
(* JavaScript values.                                                      *)
(***************************************************************************)
Undefined == [type |-> "undefined"]
Null == [type |-> "null"]
Bool(b) == [type |-> "boolean", bool |-> b]
Str(s) == [type |-> "string", chars |-> s]
Num(i) == [type |-> "number", num |-> i]
NaN == [type |-> "NaN"]
Obj(p) == [type |-> "object", props |-> p]
Arr(a) == [type |-> "array", items |-> a]

Range(s) == {s[i] : i \in DOMAIN s}

Digits == {"0", "1", "2", "3", "4", "5", "6", "7", "8", "9"}

DigitValue(c) ==
    CASE c = "0" -> 0 [] c = "1" -> 1 [] c = "2" -> 2 [] c = "3" -> 3 [] c = "4" -> 4
      [] c = "5" -> 5 [] c = "6" -> 6 [] c = "7" -> 7 [] c = "8" -> 8 [] c = "9" -> 9

RECURSIVE DecimalValue(_)
DecimalValue(s) ==
    IF s = <<>> THEN 0
    ELSE 10 * DecimalValue(SubSeq(s, 1, Len(s) - 1)) + DigitValue(s[Len(s)])

\* ToNumber of a string: the empty string is 0, an optionally signed run of
\* digits is its value, anything else is NaN.
StringToNumber(s) ==
    LET signed == s # <<>> /\ s[1] \in {"-", "+"}
        body == IF signed THEN Tail(s) ELSE s
    IN  IF s = <<>> THEN Num(0)
        ELSE IF body # <<>> /\ Range(body) \subseteq Digits
             THEN Num(IF s[1] = "-" THEN 0 - DecimalValue(body) ELSE DecimalValue(body))
             ELSE NaN

ToNumber(v) ==
    CASE v.type = "undefined" -> NaN
      [] v.type = "string" -> StringToNumber(v.chars)
      [] v.type = "number" -> v
      [] v.type = "boolean" -> Num(IF v.bool THEN 1 ELSE 0)
      [] OTHER -> NaN

\* x >= y of JavaScript: both sides to numbers, false when either is NaN.
GreaterOrEqual(x, y) ==
    LET a == ToNumber(x)
        b == ToNumber(y)
    IN  a.type = "number" /\ b.type = "number" /\ a.num >= b.num

(***************************************************************************)
(* A response document: the element nodes of xData.responseXML in document *)
(* order.  A request that got no XML back has responseXML undefined.       *)
(***************************************************************************)
Xml(nodes) == [type |-> "xml", nodes |-> nodes]
Node(nm, a, t) == [name |-> nm, attrs |-> a, text |-> t]
NoAttrs == [x \in {} |-> <<>>]

\* $(xData.responseXML): the empty set for undefined.
JQuery(responseXML) == IF responseXML.type = "xml" THEN responseXML.nodes ELSE <<>>

\* .SPFilterNode(name) and .find(name): the elements of that name.
SPFilterNode(nodes, name) == SelectSeq(nodes, LAMBDA e : e.name = name)

\* .attr(name) of a jQuery set: the attribute of its first element.
Attr(nodes, name) ==
    IF nodes = <<>> THEN Undefined
    ELSE IF name \in DOMAIN nodes[1].attrs THEN Str(nodes[1].attrs[name])
         ELSE Undefined

Statuses == {"success", "error", "timeout"}

\* What a request comes to: completefunc runs with (xData, Status), or never runs.
Completed(xml, status) == [ran |-> TRUE, responseXML |-> xml, Status |-> status]
NeverCompleted == [ran |-> FALSE]


(***************************************************************************)
(* Arguments.  A field list and a value list are JavaScript arrays;        *)
(* values[index] past the end of the array is undefined.                   *)
(***************************************************************************)
ValueAt(values, index) == IF index \in DOMAIN values THEN values[index] ELSE Undefined

RECURSIVE DecimalDigits(_)
DecimalDigits(num) ==
    LET d == CHOOSE c \in Digits : DigitValue(c) = num % 10
    IN  IF num < 10 THEN <<d>> ELSE DecimalDigits(num \div 10) \o <<d>>

\* "" + v: what string concatenation makes of a value.
JsToString(v) ==
    CASE v.type = "string" -> v.chars
      [] v.type = "number" -> IF v.num < 0 THEN <<"-">> \o DecimalDigits(0 - v.num)
                              ELSE DecimalDigits(v.num)
      [] v.type = "undefined" -> <<"undefined">>
      [] v.type = "boolean" -> IF v.bool THEN <<"true">> ELSE <<"false">>
      [] OTHER -> <<"NaN">>

RECURSIVE Concat(_)
Concat(parts) == IF parts = <<>> THEN <<>> ELSE Head(parts) \o Concat(Tail(parts))

(***************************************************************************)
(* createNewListItem, createExternalListItem (lines 141-165, 410-435).     *)
(***************************************************************************)
\* The pairs with the values taken from the other end of the array.
ValuePairsReversed(fields, values) ==
    [index \in DOMAIN fields |-> <<fields[index], ValueAt(values, Len(fields) + 1 - index)>>]

\* fields.forEach: fieldValues.push([fields[index], values[index]])
ValuePairs(fields, values) == [index \in DOMAIN fields |-> <<fields[index], ValueAt(values, index)>>]

CreateRequest(lName, fields, values) ==
    [operation |-> "UpdateListItems", async |-> FALSE, batchCmd |-> "New",
     listName |-> lName, valuepairs |-> ValuePairs(fields, values)]

\* The completefunc without its test of Status.
StatusIgnoredCompletefunc(responseXML, Status) ==
    LET newId == Attr(SPFilterNode(JQuery(responseXML), "z:row"), "ows_ID")
    IN  IF GreaterOrEqual(newId, Num(0)) THEN Bool(TRUE) ELSE Bool(FALSE)

\* The completefunc of the create, update and delete functions (the same text
\* in each): newId = $(xData.responseXML).SPFilterNode("z:row").attr("ows_ID").
UpdateListItemsCompletefunc(responseXML, Status) ==
    LET newId == Attr(SPFilterNode(JQuery(responseXML), "z:row"), "ows_ID")
    IN  IF Status = "success" /\ GreaterOrEqual(newId, Num(0)) THEN Bool(TRUE) ELSE Bool(FALSE)

\* var response = false; ... return response;
createNewListItemReturn(resp) ==
    IF resp.ran THEN UpdateListItemsCompletefunc(resp.responseXML, resp.Status)
    ELSE Bool(FALSE)

(***************************************************************************)
(* updateListItem, updateExternalListItem (lines 178-200, 440-463) and     *)
(* deleteListItem (lines 212-231).                                         *)
(***************************************************************************)
FieldOpen(name) == "<Field Name='" \o name \o "'>"
FieldClose == "</Field>"

\* fieldValues += "<Field Name='"+fields[index]+"'>"+values[index]+"</Field>"
FieldValues(fields, values) ==
    Concat([index \in DOMAIN fields |->
              <<FieldOpen(fields[index])>> \o JsToString(ValueAt(values, index)) \o <<FieldClose>>])

MethodOpen(cmd) == "<Batch OnError='Continue' PreCalc='TRUE'><Method ID='1' Cmd='" \o cmd \o "'>"
MethodClose == "</Method></Batch>"

Batch(cmd, fieldValues) == <<MethodOpen(cmd)>> \o fieldValues \o <<MethodClose>>

UpdateRequest(lName, fields, values) ==
    [operation |-> "UpdateListItems", async |-> FALSE, listName |-> lName,
     updates |-> Batch("Update", FieldValues(fields, values))]

\* The delete batch with the Cmd of updateListItem left in it.
DeleteRequestCmdUpdate(lName, id) ==
    [operation |-> "UpdateListItems", async |-> FALSE, listName |-> lName,
     updates |-> Batch("Update", <<FieldOpen("ID")>> \o JsToString(id) \o <<FieldClose>>)]

DeleteRequest(lName, id) ==
    [operation |-> "UpdateListItems", async |-> FALSE, listName |-> lName,
     updates |-> Batch("Delete", <<FieldOpen("ID")>> \o JsToString(id) \o <<FieldClose>>)]

\* var response; ... return response;
updateListItemReturn(resp) ==
    IF resp.ran THEN UpdateListItemsCompletefunc(resp.responseXML, resp.Status)
    ELSE Undefined

deleteListItemReturn(resp) ==
    IF resp.ran THEN UpdateListItemsCompletefunc(resp.responseXML, resp.Status)
    ELSE Undefined

(***************************************************************************)
(* deleteFile (lines 340-366).                                             *)
(***************************************************************************)
ZeroErrorCode == <<"0x00000000">>

DeleteFileRequest(lName, filePath, id) ==
    [operation |-> "UpdateListItems", async |-> FALSE, listName |-> lName,
     updates |-> <<"<Batch OnError='Continue'><Method ID='1' Cmd='Delete'>">>
                 \o <<FieldOpen("ID")>> \o JsToString(id) \o <<FieldClose>>
                 \o <<FieldOpen("FileRef")>> \o JsToString(filePath) \o <<FieldClose>>
                 \o <<MethodClose>>]

\* .each over the ErrorCode elements: every one assigns response.
RECURSIVE EachErrorCode(_, _)
EachErrorCode(nodes, response) ==
    IF nodes = <<>> THEN response
    ELSE LET responseError == Head(nodes).text
         IN  EachErrorCode(Tail(nodes),
                           IF responseError = ZeroErrorCode THEN Bool(TRUE) ELSE Bool(FALSE))

\* var response = false; ... return response;
deleteFileReturn(resp) ==
    IF resp.ran
    THEN EachErrorCode(SPFilterNode(JQuery(resp.responseXML), "ErrorCode"), Bool(FALSE))
    ELSE Bool(FALSE)

(***************************************************************************)
(* getCurrentUser (lines 469-491).                                         *)
(***************************************************************************)
\* complete reading the Name attribute into both variables.
GetCurrentUserCompleteNameTwice(responseXML) ==
    LET name == Attr(SPFilterNode(JQuery(responseXML), "User"), "Name")
    IN  <<name, name>>

\* complete: function(xData, status): the two attributes of the User element.
GetCurrentUserComplete(responseXML) ==
    LET idUser == Attr(SPFilterNode(JQuery(responseXML), "User"), "ID")
        name == Attr(SPFilterNode(JQuery(responseXML), "User"), "Name")
    IN  <<idUser, name>>

\* var idUser, name; ... user = [idUser, name]; return user;
getCurrentUserReturn(resp) ==
    Arr(IF resp.ran THEN GetCurrentUserComplete(resp.responseXML) ELSE <<Undefined, Undefined>>)

(***************************************************************************)
(* getListItems (lines 83-123) and getExternalListItems (lines 372-405).   *)
(***************************************************************************)
\* viewFields: one FieldRef per requested field, in order.
ViewFields(fields) ==
    <<"<ViewFields>">> \o [index \in DOMAIN fields |-> "<FieldRef Name='" \o fields[index] \o "'/>"]
    \o <<"</ViewFields>">>

DefaultQuery == <<"<Query></Query>">>

\* query = query ? query : "<Query></Query>" (the empty string and undefined are falsy)
QueryOrDefault(query) ==
    IF query.type = "undefined" \/ (query.type = "string" /\ query.chars = <<>>)
    THEN DefaultQuery ELSE query.chars

\* The options with async: false whatever the callback.
GetListItemsRequestSynchronous(lName, fields, query, async) ==
    [operation |-> "GetListItems", async |-> FALSE, listName |-> lName,
     CAMLViewFields |-> ViewFields(fields), CAMLQuery |-> query]

GetListItemsRequest(lName, fields, query, async) ==
    [operation |-> "GetListItems", async |-> async, listName |-> lName,
     CAMLViewFields |-> ViewFields(fields), CAMLQuery |-> query]

\* The .each with a key set only for the attributes a row has.
ParseRowsPresentOnly(responseXML, fields) ==
    LET rows == SPFilterNode(JQuery(responseXML), "z:row")
    IN  [i \in DOMAIN rows |->
           Obj([item \in {f \in Range(fields) : ("ows_" \o f) \in DOMAIN rows[i].attrs} |->
                   Attr(<<rows[i]>>, "ows_" \o item)])]

\* The .each over the z:row elements: listItems[i][item] = row.attr('ows_'+item).
ParseRows(responseXML, fields) ==
    LET rows == SPFilterNode(JQuery(responseXML), "z:row")
    IN  [i \in DOMAIN rows |->
           Obj([item \in Range(fields) |-> Attr(<<rows[i]>>, "ows_" \o item)])]

\* completefunc: the rows parsed on "success", and the calls it makes of the
\* callback, which depend on the global isAsync as it is when completefunc runs.
GetListItemsCompletefunc(responseXML, Status, fields, isAsyncNow) ==
    IF Status = "success"
    THEN LET listItems == ParseRows(responseXML, fields)
         IN  [listItems |-> listItems,
              calls |-> IF isAsyncNow THEN <<Arr(listItems)>> ELSE <<>>]
    ELSE [listItems |-> <<>>, calls |-> <<>>]

\* The end of getListItems returning the array whatever its length.
ArrayAlways(listItems) == Arr(listItems)

\* if(listItems.length > 1) return listItems; else ... (lines 115-122)
getListItemsReturn(listItems) ==
    IF Len(listItems) > 1 THEN Arr(listItems)
    ELSE IF Len(listItems) = 1 THEN listItems[1]
         ELSE Bool(FALSE)

\* return listItems; (line 404)
getExternalListItemsReturn(listItems) == Arr(listItems)

(***************************************************************************)
(* The arguments the callers pass and the responses the services give.     *)
(***************************************************************************)
SeqsUpTo(S, len) == UNION {[1..k -> S] : k \in 0..len}

ListNames == {"Employees"}
\* The (fields, values) arguments of a create or an update.
FieldValueArguments ==
    {[fields |-> <<"Title">>, values |-> <<Str(<<"x">>)>>],
     [fields |-> <<"ID", "Title">>, values |-> <<Num(7), Str(<<"y">>)>>]}
\* The fields argument of a read.
FieldLists == {<<"ID">>, <<"ID", "Title">>, <<"Title", "ID">>}
ItemIds == {Num(7)}
IdQuery(id) ==
    Str(<<"<Query><Where><Eq><FieldRef Name='ID'/><Value Type='Number'>">> \o id
        \o <<"</Value></Eq></Where></Query>">>)   \* the example of lines 56-63
Queries == {Undefined, IdQuery(<<"2">>)}
WebUrls == {Str(<<"http://othersite">>)}
FilePaths == {Str(<<"http://site/Docs/JohnDoe.txt">>)}

\* The ows_ID attribute of a row of an UpdateListItems response: the service
\* writes an integer.
IdStrings == {<<"0">>, <<"7">>, <<"1", "2">>, <<"-", "1">>, <<"-", "3">>}

Row(attrs) == Node("z:row", attrs, <<>>)
Fault == Node("soap:Fault", NoAttrs, <<"error">>)

\* UpdateListItems answers one Method with one Result: no row, or one row with
\* or without an ows_ID, under any transport status.
UpdateListItemsDocuments ==
    {Undefined, Xml(<<>>), Xml(<<Fault>>), Xml(<<Row(NoAttrs)>>)}
    \cup {Xml(<<Row([a \in {"ows_ID"} |-> id])>>) : id \in IdStrings}

UpdateListItemsResponses ==
    {NeverCompleted}
    \cup {Completed(xml, status) : xml \in UpdateListItemsDocuments, status \in Statuses}

\* GetListItems answers with rows that carry any of the attributes.
RowAttributes ==
    {[ows_ID |-> <<"1">>, ows_Title |-> <<"x">>], [ows_ID |-> <<"2">>, ows_Title |-> <<"y">>],
     [a \in {"ows_ID"} |-> <<"2">>]}
GetListItemsDocuments ==
    {Undefined} \cup {Xml([i \in DOMAIN attrs |-> Row(attrs[i])]) : attrs \in SeqsUpTo(RowAttributes, MaxRows)}

GetListItemsResponses ==
    {NeverCompleted}
    \cup {Completed(xml, status) : xml \in GetListItemsDocuments, status \in Statuses}

\* The ErrorCode elements of a deleteFile response.  A request that failed in
\* transport brings no result document: none, or a fault.
ErrorCodes == {ZeroErrorCode, <<"0x81020016">>, <<"0x81020030">>}
ErrorCode(code) == Node("ErrorCode", NoAttrs, code)
DeleteFileDocuments ==
    {Xml([i \in DOMAIN codes |-> ErrorCode(codes[i])]) : codes \in SeqsUpTo(ErrorCodes, MaxCodes)}

FailedDocuments == {Undefined, Xml(<<Fault>>)}

DeleteFileResponses ==
    {NeverCompleted}
    \cup {Completed(xml, "success") : xml \in DeleteFileDocuments}
    \cup {Completed(xml, status) : xml \in FailedDocuments, status \in Statuses \ {"success"}}

\* GetCurrentUserInfo answers with a User element; a failed call with none.
UserIds == {<<"1", "5">>, <<"3">>}
UserNames == {<<"John Doe">>, <<>>}
UserAttributes == {[ID |-> id, Name |-> name] : id \in UserIds, name \in UserNames}
UserDocuments ==
    {Xml(<<>>)} \cup {Xml(<<Node("User", a, <<>>)>>) : a \in UserAttributes}
    \cup {Xml(<<Node("GetCurrentUserInfoResult", NoAttrs, <<>>), Node("User", a, <<>>)>>) :
            a \in UserAttributes}

GetCurrentUserResponses ==
    {NeverCompleted}
    \cup {Completed(xml, "success") : xml \in UserDocuments}
    \cup {Completed(xml, status) : xml \in FailedDocuments, status \in Statuses \ {"success"}}

(***************************************************************************)
(* The calls.  Each is one call of a function of the library, from its     *)
(* first line to its return; a synchronous request is answered inside the  *)
(* call.  A ...Call formula says what the call does to the program's own   *)
(* state, whoever answers its request.                                     *)
(***************************************************************************)
NoCall == [fn |-> "none"]

Init ==
    /\ isAsync = FALSE
    /\ last = NoCall
    /\ pending = <<>>
    /\ done = <<>>
    /\ store = <<>>
    /\ nextId = 1
    /\ prev = [call |-> NoCall, before |-> <<>>]
    /\ filereader = 0
    /\ readers = <<>>
    /\ uploads = <<>>
    /\ stack = 0
    /\ data = Undefined
    /\ n = Undefined
    /\ posts = <<>>
    /\ log = <<>>

createNewListItemCall(lName, fields, values, resp) ==
    /\ last' = [fn |-> "createNewListItem", fields |-> fields, values |-> values,
                request |-> CreateRequest(lName, fields, values),
                resp |-> resp, ret |-> createNewListItemReturn(resp)]
    /\ UNCHANGED <<isAsync, pending, done>>

createExternalListItemCall(lName, fields, values, webUrl, resp) ==
    /\ last' = [fn |-> "createExternalListItem", fields |-> fields, values |-> values,
                request |-> [webURL |-> webUrl] @@ CreateRequest(lName, fields, values),
                resp |-> resp, ret |-> createNewListItemReturn(resp)]
    /\ UNCHANGED <<isAsync, pending, done>>

updateListItemCall(lName, fields, values, resp) ==
    /\ last' = [fn |-> "updateListItem", fields |-> fields, values |-> values,
                request |-> UpdateRequest(lName, fields, values),
                resp |-> resp, ret |-> updateListItemReturn(resp)]
    /\ UNCHANGED <<isAsync, pending, done>>

updateExternalListItemCall(lName, fields, values, webUrl, resp) ==
    /\ last' = [fn |-> "updateExternalListItem", fields |-> fields, values |-> values,
                request |-> [webURL |-> webUrl] @@ UpdateRequest(lName, fields, values),
                resp |-> resp, ret |-> updateListItemReturn(resp)]
    /\ UNCHANGED <<isAsync, pending, done>>

deleteListItemCall(lName, id, resp) ==
    /\ last' = [fn |-> "deleteListItem", id |-> id, request |-> DeleteRequest(lName, id),
                resp |-> resp, ret |-> deleteListItemReturn(resp)]
    /\ UNCHANGED <<isAsync, pending, done>>

deleteFileCall(lName, filePath, id, resp) ==
    /\ last' = [fn |-> "deleteFile", request |-> DeleteFileRequest(lName, filePath, id),
                resp |-> resp, ret |-> deleteFileReturn(resp)]
    /\ UNCHANGED <<isAsync, pending, done>>

\* const URL_SITE (line 37)
URL_SITE == <<"http://yoursiteurl.us/url/of/your/site">>

\* The options of $.ajax in getCurrentUser, lines 477-488.
GetCurrentUserRequest ==
    [url |-> URL_SITE \o <<"/_vti_bin/usergroup.asmx">>, async |-> FALSE, type |-> "POST"]

getCurrentUserCall(resp) ==
    /\ last' = [fn |-> "getCurrentUser", request |-> GetCurrentUserRequest,
                resp |-> resp, ret |-> getCurrentUserReturn(resp)]
    /\ UNCHANGED <<isAsync, pending, done>>

\* A callback argument: a function of the caller, or none.
Handler == [type |-> "function"]
Callbacks == {Undefined, Handler}

\* The requests issued so far and not yet answered, by number.
Requests == DOMAIN pending \cup DOMAIN done
NewRequest == Cardinality(Requests) + 1
Without(f, k) == [x \in DOMAIN f \ {k} |-> f[x]]

\* getListItems(lName, fields, query, callback).  resp is the answer to the
\* request when it is synchronous (no callback); an asynchronous request is
\* left pending and answered by GetListItemsComplete.
getListItemsCall(lName, fields, query, callback, resp) ==
    LET async == IF callback.type = "function" THEN TRUE ELSE FALSE
        request == GetListItemsRequest(lName, fields, QueryOrDefault(query), async)
        ran == IF resp.ran
               THEN GetListItemsCompletefunc(resp.responseXML, resp.Status, fields, async)
               ELSE [listItems |-> <<>>, calls |-> <<>>]
    IN  /\ isAsync' = async
        /\ IF async
           THEN /\ Cardinality(Requests) < MaxRequests
                /\ pending' = pending @@ (NewRequest :> [fn |-> "getListItems", fields |-> fields,
                                                         request |-> request,
                                                         ret |-> getListItemsReturn(<<>>)])
                /\ last' = [fn |-> "getListItems", request |-> request, callback |-> callback,
                            ret |-> getListItemsReturn(<<>>)]
           ELSE /\ pending' = pending
                /\ last' = [fn |-> "getListItems", request |-> request, callback |-> callback,
                            fields |-> fields, resp |-> resp, calls |-> ran.calls,
                            ret |-> getListItemsReturn(ran.listItems)]
        /\ UNCHANGED done

\* getExternalListItems(lName, query, fields, webUrl, callback): the query is
\* passed as given, and the array is returned whatever its length.
getExternalListItemsCall(lName, query, fields, webUrl, callback, resp) ==
    LET async == IF callback.type = "function" THEN TRUE ELSE FALSE
        request == [webURL |-> webUrl] @@ GetListItemsRequest(lName, fields, query, async)
        ran == IF resp.ran
               THEN GetListItemsCompletefunc(resp.responseXML, resp.Status, fields, async)
               ELSE [listItems |-> <<>>, calls |-> <<>>]
    IN  /\ isAsync' = async
        /\ IF async
           THEN /\ Cardinality(Requests) < MaxRequests
                /\ pending' = pending @@ (NewRequest :> [fn |-> "getExternalListItems",
                                                         fields |-> fields, request |-> request,
                                                         ret |-> getExternalListItemsReturn(<<>>)])
                /\ last' = [fn |-> "getExternalListItems", request |-> request,
                            callback |-> callback, ret |-> getExternalListItemsReturn(<<>>)]
           ELSE /\ pending' = pending
                /\ last' = [fn |-> "getExternalListItems", request |-> request,
                            callback |-> callback, fields |-> fields, resp |-> resp,
                            calls |-> ran.calls,
                            ret |-> getExternalListItemsReturn(ran.listItems)]
        /\ UNCHANGED done

\* The answer to a pending asynchronous request arrives: its completefunc runs,
\* reading the global isAsync as it is now.
GetListItemsCompleteCall(id, responseXML, Status) ==
    /\ id \in DOMAIN pending
    /\ LET ran == GetListItemsCompletefunc(responseXML, Status, pending[id].fields, isAsync)
       IN  done' = done @@ (id :> [fn |-> pending[id].fn, fields |-> pending[id].fields,
                                   request |-> pending[id].request, ret |-> pending[id].ret,
                                   responseXML |-> responseXML, Status |-> Status,
                                   listItems |-> ran.listItems, calls |-> ran.calls])
    /\ pending' = Without(pending, id)
    /\ UNCHANGED <<isAsync, last>>

\* The calls against a service whose state the model leaves open.
createNewListItem(lName, fields, values, resp) ==
    createNewListItemCall(lName, fields, values, resp) /\ UNCHANGED <<serviceVars, uploadVars>>

createExternalListItem(lName, fields, values, webUrl, resp) ==
    createExternalListItemCall(lName, fields, values, webUrl, resp) /\ UNCHANGED <<serviceVars, uploadVars>>

updateListItem(lName, fields, values, resp) ==
    updateListItemCall(lName, fields, values, resp) /\ UNCHANGED <<serviceVars, uploadVars>>

updateExternalListItem(lName, fields, values, webUrl, resp) ==
    updateExternalListItemCall(lName, fields, values, webUrl, resp) /\ UNCHANGED <<serviceVars, uploadVars>>

deleteListItem(lName, id, resp) ==
    deleteListItemCall(lName, id, resp) /\ UNCHANGED <<serviceVars, uploadVars>>

deleteFile(lName, filePath, id, resp) ==
    deleteFileCall(lName, filePath, id, resp) /\ UNCHANGED <<serviceVars, uploadVars>>

getCurrentUser(resp) ==
    getCurrentUserCall(resp) /\ UNCHANGED <<serviceVars, uploadVars>>

getListItems(lName, fields, query, callback, resp) ==
    getListItemsCall(lName, fields, query, callback, resp) /\ UNCHANGED <<serviceVars, uploadVars>>

getExternalListItems(lName, query, fields, webUrl, callback, resp) ==
    getExternalListItemsCall(lName, query, fields, webUrl, callback, resp) /\ UNCHANGED <<serviceVars, uploadVars>>

GetListItemsComplete(id, responseXML, Status) ==
    GetListItemsCompleteCall(id, responseXML, Status) /\ UNCHANGED <<serviceVars, uploadVars>>

(***************************************************************************)
(* The library's functions called one at a time, each synchronous request  *)
(* answered by a service that may give any response.                       *)
(***************************************************************************)
Next ==
    \/ \E lName \in ListNames, a \in FieldValueArguments,
          resp \in UpdateListItemsResponses :
          createNewListItem(lName, a.fields, a.values, resp)
    \/ \E lName \in ListNames, a \in FieldValueArguments,
          webUrl \in WebUrls, resp \in UpdateListItemsResponses :
          createExternalListItem(lName, a.fields, a.values, webUrl, resp)
    \/ \E lName \in ListNames, a \in FieldValueArguments,
          resp \in UpdateListItemsResponses :
          updateListItem(lName, a.fields, a.values, resp)
    \/ \E lName \in ListNames, a \in FieldValueArguments,
          webUrl \in WebUrls, resp \in UpdateListItemsResponses :
          updateExternalListItem(lName, a.fields, a.values, webUrl, resp)
    \/ \E lName \in ListNames, id \in ItemIds, resp \in UpdateListItemsResponses :
          deleteListItem(lName, id, resp)
    \/ \E lName \in ListNames, filePath \in FilePaths, id \in ItemIds,
          resp \in DeleteFileResponses :
          deleteFile(lName, filePath, id, resp)
    \/ \E resp \in GetCurrentUserResponses : getCurrentUser(resp)
    \/ \E lName \in ListNames, fields \in FieldLists, query \in Queries,
          resp \in GetListItemsResponses :
          getListItems(lName, fields, query, Undefined, resp)
    \/ \E lName \in ListNames, fields \in FieldLists, query \in Queries, webUrl \in WebUrls,
          resp \in GetListItemsResponses :
          getExternalListItems(lName, query, fields, webUrl, Undefined, resp)

Spec == Init /\ [][Next]_vars

(***************************************************************************)
(* Properties of the single calls.                                         *)
(***************************************************************************)
Rows(resp) == SPFilterNode(JQuery(resp.responseXML), "z:row")

\* A response that satisfies the success predicate: transport status "success"
\* and a row whose identifier is a number that is not negative.
NonNegative(id) == StringToNumber(id).type = "number" /\ StringToNumber(id).num >= 0
Succeeded(resp) ==
    /\ resp.ran
    /\ resp.Status = "success"
    /\ \E i \in DOMAIN Rows(resp) :
          "ows_ID" \in DOMAIN Rows(resp)[i].attrs /\ NonNegative(Rows(resp)[i].attrs["ows_ID"])

\* C1: createNewListItem (and createExternalListItem) returns true exactly when
\* the transport status is "success" and the response carries a row with a
\* non-negative identifier, and false in every other case, also when the
\* completion function never runs.
C1_CreateTrueIffSuccess ==
    last.fn \in {"createNewListItem", "createExternalListItem"} =>
        /\ last.ret \in {Bool(TRUE), Bool(FALSE)}
        /\ last.ret = Bool(TRUE) <=> Succeeded(last.resp)

C1_Witness ==
    /\ last.fn = "createNewListItem"
    /\ last.ret = Bool(TRUE)
    /\ last.resp.Status = "success"

\* C2: updateListItem and deleteListItem always return a boolean: true exactly
\* when the success predicate holds, false (not undefined) otherwise, also
\* when the completion function never runs.
C2_UpdateDeleteBoolean ==
    last.fn \in {"updateListItem", "deleteListItem"} =>
        /\ last.ret \in {Bool(TRUE), Bool(FALSE)}
        /\ last.ret = Bool(TRUE) <=> Succeeded(last.resp)

\* The object a row element is read into: one key per requested field, holding
\* the row's ows_ attribute of that name.
RowObject(row, fields) ==
    Obj([f \in Range(fields) |->
           IF ("ows_" \o f) \in DOMAIN row.attrs THEN Str(row.attrs["ows_" \o f]) ELSE Undefined])

\* C4: a getListItems call without a completion handler returns false when the
\* status is not "success" or the response has no row, the single row object
\* when it has one row, and the array of all rows in response order when it
\* has more.
C4_SynchronousReturn ==
    (last.fn = "getListItems" /\ last.callback = Undefined) =>
        LET ok == last.resp.ran /\ last.resp.Status = "success"
            rows == IF ok THEN Rows(last.resp) ELSE <<>>
            count == Len(rows)
        IN  /\ count = 0 => last.ret = Bool(FALSE)
            /\ count = 1 => last.ret = RowObject(rows[1], last.fields)
            /\ count > 1 => /\ last.ret.type = "array"
                        /\ Len(last.ret.items) = count
                        /\ \A i \in 1..count : last.ret.items[i] = RowObject(rows[i], last.fields)

C4_Witness ==
    /\ last.fn = "getListItems"
    /\ last.callback = Undefined
    /\ last.resp.ran
    /\ last.resp.Status = "success"
    /\ Len(Rows(last.resp)) = 1
    /\ last.ret.type = "object"

\* C5: deleteFile returns true only when the response's error code is
\* '0x00000000'; false for any other code, for no code and for a transport
\* failure; with several codes, one code other than zero makes it false.
C5_DeleteFileAllCodesZero ==
    last.fn = "deleteFile" =>
        LET codes == IF last.resp.ran
                     THEN SPFilterNode(JQuery(last.resp.responseXML), "ErrorCode")
                     ELSE <<>>
        IN  /\ last.ret \in {Bool(TRUE), Bool(FALSE)}
            /\ last.ret = Bool(TRUE) <=>
                  (codes # <<>> /\ \A i \in DOMAIN codes : codes[i].text = ZeroErrorCode)

\* C10: getCurrentUser always returns a pair: the User element's ID and Name
\* when the response holds one, and two undefined components when the call
\* fails or the response holds no User element.
C10_CurrentUserPair ==
    last.fn = "getCurrentUser" =>
        LET users == IF last.resp.ran
                     THEN SPFilterNode(JQuery(last.resp.responseXML), "User")
                     ELSE <<>>
        IN  /\ last.ret.type = "array"
            /\ Len(last.ret.items) = 2
            /\ users # <<>> =>
                  last.ret.items = <<Str(users[1].attrs["ID"]), Str(users[1].attrs["Name"])>>
            /\ (~last.resp.ran \/ last.resp.Status # "success" \/ users = <<>>) =>
                  last.ret.items = <<Undefined, Undefined>>

C10_Witness ==
    /\ last.fn = "getCurrentUser"
    /\ last.resp.ran
    /\ last.ret.items = <<Str(<<"1", "5">>), Str(<<"John Doe">>)>>

C10_WitnessFailed ==
    /\ last.fn = "getCurrentUser"
    /\ last.resp.ran
    /\ last.resp.Status = "error"
    /\ last.ret.items = <<Undefined, Undefined>>

(***************************************************************************)
(* Reads with and without a completion handler, interleaved: a request     *)
(* with a handler is answered at any later time, between other calls.      *)
(***************************************************************************)
AsyncFieldLists == {<<"ID", "Title">>}
AsyncRowAttributes ==
    {[ows_ID |-> <<"1">>, ows_Title |-> <<"x">>], [ows_ID |-> <<"2">>, ows_Title |-> <<"y">>]}
AsyncDocuments ==
    {Xml([i \in DOMAIN attrs |-> Row(attrs[i])]) : attrs \in SeqsUpTo(AsyncRowAttributes, MaxRows)}
AsyncStatuses == {"success", "error"}
\* The answers to the synchronous reads made in between.
SyncResponses == {NeverCompleted, Completed(Xml(<<Row([ows_ID |-> <<"1">>, ows_Title |-> <<"x">>])>>), "success")}

NextAsync ==
    \/ \E lName \in ListNames, fields \in AsyncFieldLists, callback \in Callbacks,
          resp \in SyncResponses :
          getListItems(lName, fields, Undefined, callback, resp)
    \/ \E lName \in ListNames, fields \in AsyncFieldLists, webUrl \in WebUrls,
          callback \in Callbacks, resp \in SyncResponses :
          getExternalListItems(lName, DefaultQuery, fields, webUrl, callback, resp)
    \/ \E id \in DOMAIN pending, xml \in AsyncDocuments, Status \in AsyncStatuses :
          GetListItemsComplete(id, xml, Status)

SpecAsync == Init /\ [][NextAsync]_vars

\* C3: a getListItems request with a completion handler that completes with
\* status "success" has invoked the handler exactly once, with the collection
\* of all the rows parsed; one that completes with another status has not
\* invoked it; whatever calls were made while it was pending.
C3_HandlerInvokedOnce ==
    \A id \in DOMAIN done :
        done[id].fn = "getListItems" =>
            LET rows == SPFilterNode(JQuery(done[id].responseXML), "z:row")
            IN  IF done[id].Status = "success"
                THEN done[id].calls = <<Arr([i \in DOMAIN rows |-> RowObject(rows[i], done[id].fields)])>>
                ELSE done[id].calls = <<>>

(***************************************************************************)
(* A list service that stores rows: what UpdateListItems and GetListItems  *)
(* do with the requests above.  A row is a function from the columns that  *)
(* hold a value to the value; the service gives each new row the next      *)
(* identifier.                                                             *)
(***************************************************************************)
Columns == {"ID", "Title", "Status"}
ColumnOf(attr) == CHOOSE c \in Columns : ("ows_" \o c) = attr

\* The z:row element of a stored row, with the columns asked for.
RowNode(row, cols) ==
    Row([a \in {"ows_" \o c : c \in cols \cap DOMAIN row} |-> row[ColumnOf(a)]])

Assign(row, column, value) ==
    [c \in DOMAIN row \cup {column} |-> IF c = column THEN value ELSE row[c]]

\* The fields of a command applied to a row in their order; the identifier is
\* the service's.
RECURSIVE ApplyFields(_, _)
ApplyFields(row, assignments) ==
    IF assignments = <<>> THEN row
    ELSE LET a == Head(assignments)
         IN  ApplyFields(IF a.name = "ID" \/ a.name \notin Columns THEN row
                         ELSE Assign(row, a.name, a.value),
                         Tail(assignments))

\* Cmd 'New' with valuepairs: each pair is a column and the value for it.
ServiceNew(st, id, valuepairs) ==
    LET assignments == [k \in DOMAIN valuepairs |->
                          [name |-> valuepairs[k][1], value |-> JsToString(valuepairs[k][2])]]
        row == ApplyFields([c \in {"ID"} |-> DecimalDigits(id)], assignments)
    IN  [store |-> st @@ (id :> row),
         resp |-> Completed(Xml(<<ErrorCode(ZeroErrorCode), RowNode(row, Columns)>>), "success")]

\* The Field elements of a batch: <Field Name='..'>, text, </Field>, repeated.
FieldOpens == {FieldOpen(c) : c \in Columns}
Markup == FieldOpens \cup {FieldClose}
FirstMarkup(ts, from) ==
    LET at == {j \in from..Len(ts) : ts[j] \in Markup}
    IN  IF at = {} THEN 0 ELSE CHOOSE j \in at : \A k \in at : j <= k

RECURSIVE ParseFields(_)
ParseFields(ts) ==
    IF ts = <<>> THEN [ok |-> TRUE, fields |-> <<>>]
    ELSE LET close == FirstMarkup(ts, 2)
         IN  IF ts[1] \notin FieldOpens \/ close = 0 THEN [ok |-> FALSE, fields |-> <<>>]
             ELSE IF ts[close] # FieldClose THEN [ok |-> FALSE, fields |-> <<>>]
             ELSE LET rest == ParseFields(SubSeq(ts, close + 1, Len(ts)))
                      field == [name |-> CHOOSE c \in Columns : FieldOpen(c) = ts[1],
                                value |-> SubSeq(ts, 2, close - 1)]
                  IN  [ok |-> rest.ok, fields |-> <<field>> \o rest.fields]

NoSuchItem == <<"0x81020016">>

\* A batch of one Method, Cmd 'Update' or 'Delete', on the row its ID field
\* names.  echo: whether the answer to a Delete carries the row's z:row.
ServiceBatch(st, updates, echo) ==
    LET cmd == IF updates[1] = MethodOpen("Update") THEN "Update"
               ELSE IF updates[1] = MethodOpen("Delete") THEN "Delete" ELSE "none"
        parsed == ParseFields(SubSeq(updates, 2, Len(updates) - 1))
        ids == SelectSeq(parsed.fields, LAMBDA f : f.name = "ID")
        item == IF ids = <<>> THEN NaN ELSE StringToNumber(ids[1].value)
        found == item.type = "number" /\ item.num \in DOMAIN st
        row == ApplyFields(st[item.num], parsed.fields)
    IN  IF ~parsed.ok \/ cmd = "none" \/ updates[Len(updates)] # MethodClose
        THEN [store |-> st, resp |-> Completed(Xml(<<Fault>>), "error")]
        ELSE IF ~found
        THEN [store |-> st, resp |-> Completed(Xml(<<ErrorCode(NoSuchItem)>>), "success")]
        ELSE IF cmd = "Update"
        THEN [store |-> [st EXCEPT ![item.num] = row],
              resp |-> Completed(Xml(<<ErrorCode(ZeroErrorCode), RowNode(row, Columns)>>), "success")]
        ELSE [store |-> Without(st, item.num),
              resp |-> Completed(Xml(<<ErrorCode(ZeroErrorCode)>>
                                     \o IF echo THEN <<RowNode(st[item.num], {"ID"})>> ELSE <<>>),
                                 "success")]

RECURSIVE Ascending(_)
Ascending(S) ==
    IF S = {} THEN <<>>
    ELSE LET m == CHOOSE x \in S : \A y \in S : x <= y
         IN  <<m>> \o Ascending(S \ {m})

IdQueryOpen == "<Query><Where><Eq><FieldRef Name='ID'/><Value Type='Number'>"
IdQueryClose == "</Value></Eq></Where></Query>"

\* GetListItems: the rows the query selects (all, or the one of an identifier),
\* in the order of their identifiers, each with the view fields it holds.
ServiceGetListItems(st, request) ==
    LET q == request.CAMLQuery
        byId == Len(q) >= 2 /\ q[1] = IdQueryOpen /\ q[Len(q)] = IdQueryClose
        selected == IF q = DefaultQuery THEN DOMAIN st
                    ELSE IF byId THEN {i \in DOMAIN st : st[i]["ID"] = SubSeq(q, 2, Len(q) - 1)}
                    ELSE {}
        cols == {c \in Columns : ("<FieldRef Name='" \o c \o "'/>") \in Range(request.CAMLViewFields)}
        order == Ascending(selected)
    IN  Completed(Xml([k \in DOMAIN order |-> RowNode(st[order[k]], cols \cup {"ID"})]), "success")

(***************************************************************************)
(* The calls against the storing service.                                  *)
(***************************************************************************)
Plain == Str(<<"x">>)
\* A value that holds the markup of a Field element.
WithMarkup == Str(<<"y", FieldClose, FieldOpen("Status"), "z">>)
StoredValues == {Plain, WithMarkup}

\* The value lists as long as a field list; at ID, the identifier of a row.
ValuesFor(fields) ==
    {v \in [DOMAIN fields -> StoredValues \cup {Num(i) : i \in 1..MaxItems}] :
        \A k \in DOMAIN fields : v[k].type = "number" <=> fields[k] = "ID"}

\* Field lists: of no field, of one, of two, of one name twice, with the
\* identifier.
CreateFieldLists == {<<>>, <<"Title">>, <<"Status", "Title">>, <<"Title", "Title">>, <<"ID", "Title">>}
UpdateFieldLists == {<<"ID", "Title">>, <<"Title", "ID">>, <<"ID", "Status", "Title">>}
AllColumns == <<"ID", "Title", "Status">>
ReadFieldLists == (CreateFieldLists \ {<<>>}) \cup {AllColumns}
StoredQueries == {IdQuery(DecimalDigits(i)) : i \in 1..MaxItems}

\* History: the row of that identifier as it is before a change.
Changing(id) == prev' = [call |-> NoCall, before |-> IF id \in DOMAIN store THEN store[id] ELSE <<>>]

CreateStored(lName, fields, values) ==
    LET out == ServiceNew(store, nextId, CreateRequest(lName, fields, values).valuepairs)
    IN  /\ nextId <= MaxItems
        /\ createNewListItemCall(lName, fields, values, out.resp)
        /\ store' = out.store
        /\ nextId' = nextId + 1
        /\ Changing(nextId)
        /\ UNCHANGED uploadVars

UpdateStored(lName, fields, values) ==
    LET out == ServiceBatch(store, UpdateRequest(lName, fields, values).updates, FALSE)
    IN  /\ updateListItemCall(lName, fields, values, out.resp)
        /\ store' = out.store
        /\ UNCHANGED nextId
        /\ \E k \in DOMAIN fields : fields[k] = "ID" /\ Changing(values[k].num)
        /\ UNCHANGED uploadVars

DeleteStored(lName, id, echo) ==
    LET out == ServiceBatch(store, DeleteRequest(lName, id).updates, echo)
    IN  /\ deleteListItemCall(lName, id, out.resp)
        /\ store' = out.store
        /\ UNCHANGED nextId
        /\ Changing(id.num)
        /\ UNCHANGED uploadVars

ReadStored(lName, fields, query) ==
    LET request == GetListItemsRequest(lName, fields, QueryOrDefault(query), FALSE)
    IN  /\ getListItemsCall(lName, fields, query, Undefined, ServiceGetListItems(store, request))
        /\ prev' = IF last.fn = "getListItems" THEN [call |-> NoCall, before |-> <<>>]
                    ELSE [call |-> last, before |-> prev.before]
        /\ UNCHANGED <<store, nextId, uploadVars>>

NextStored ==
    \/ \E lName \in ListNames, fields \in CreateFieldLists :
          \E values \in ValuesFor(fields) : CreateStored(lName, fields, values)
    \/ \E lName \in ListNames, fields \in UpdateFieldLists :
          \E values \in ValuesFor(fields) : UpdateStored(lName, fields, values)
    \/ \E lName \in ListNames, id \in 1..MaxItems, echo \in BOOLEAN :
          DeleteStored(lName, Num(id), echo)
    \/ \E lName \in ListNames, fields \in ReadFieldLists, query \in StoredQueries :
          ReadStored(lName, fields, query)

SpecStored == Init /\ [][NextStored]_vars

(***************************************************************************)
(* Properties of a change followed by a read of the changed row.           *)
(***************************************************************************)
ReadAfter(fn) ==
    /\ last.fn = "getListItems"
    /\ prev.call.fn = fn
    /\ prev.call.ret = Bool(TRUE)

\* The value a read gives for a value written.
AsRead(value) == Str(JsToString(value))

\* A read of the row a create has made, with the field list of the create.
ReadOfCreated ==
    /\ ReadAfter("createNewListItem")
    /\ last.fields = prev.call.fields
    /\ last.request.CAMLQuery = IdQuery(Rows(prev.call.resp)[1].attrs["ows_ID"]).chars

ReadBack ==
    /\ last.ret.type = "object"
    /\ \A k \in DOMAIN prev.call.fields :
          last.ret.props[prev.call.fields[k]] = AsRead(prev.call.values[k])

\* Each name occurs once and none is the identifier, which the service gives.
SettableOnce(fields) ==
    /\ Cardinality(Range(fields)) = Len(fields)
    /\ "ID" \notin Range(fields)

\* C6 as stated: after a createNewListItem(list, F, V) that returned true,
\* getListItems(list, F) filtered by the new identifier yields a row whose value
\* for F[k] is V[k] at every position k, for all field lists F.
C6_CreateThenReadAnyFields == ReadOfCreated => ReadBack

\* C6: for the field lists F in which each name occurs once and none is the
\* identifier, after a createNewListItem(list, F, V) that returned true,
\* getListItems(list, F) filtered by the new identifier yields a row whose value
\* for F[k] is V[k] at every position k.
C6_CreateThenRead == (ReadOfCreated /\ SettableOnce(prev.call.fields)) => ReadBack

C6_Witness ==
    /\ ReadOfCreated
    /\ prev.call.fields = <<"Status", "Title">>
    /\ prev.call.values = <<WithMarkup, Plain>>
    /\ last.ret.type = "object"

\* C7: after a deleteListItem(list, id) that returned true, getListItems on the
\* list filtered by that id yields no row, whatever creates, updates and
\* deletes came before.
C7_DeleteThenRead ==
    (/\ ReadAfter("deleteListItem")
     /\ last.request.CAMLQuery = IdQuery(JsToString(prev.call.id)).chars) =>
        /\ Rows(last.resp) = <<>>
        /\ last.ret = Bool(FALSE)

C7_Witness ==
    /\ ReadAfter("deleteListItem")
    /\ last.request.CAMLQuery = IdQuery(JsToString(prev.call.id)).chars
    /\ store # <<>>
    /\ last.ret = Bool(FALSE)

\* C8: after an updateListItem(list, F, V) that returned true, with the row's
\* identifier among the fields, getListItems of that row gives V[k] for every
\* field F[k], and every field not in F has the value it had before.
C8_UpdateThenRead ==
    (/\ ReadAfter("updateListItem")
     /\ last.fields = AllColumns
     /\ \E k \in DOMAIN prev.call.fields :
           /\ prev.call.fields[k] = "ID"
           /\ last.request.CAMLQuery = IdQuery(JsToString(prev.call.values[k])).chars) =>
        /\ last.ret.type = "object"
        /\ \A k \in DOMAIN prev.call.fields :
              last.ret.props[prev.call.fields[k]] = AsRead(prev.call.values[k])
        /\ \A c \in Columns \ Range(prev.call.fields) :
              last.ret.props[c] = IF c \in DOMAIN prev.before THEN Str(prev.before[c])
                                  ELSE Undefined

(***************************************************************************)
(* uploadFile (lines 271-326).  Text the code searches or cuts is a        *)
(* sequence of characters.                                                 *)
(***************************************************************************)
Base64Mark == <<";", "b", "a", "s", "e", "6", "4", ",">>

\* String.prototype.indexOf: the 0-based place of the first occurrence, or -1.
IndexOf(s, pattern) ==
    LET at == {i \in 0..(Len(s) - Len(pattern)) : SubSeq(s, i + 1, i + Len(pattern)) = pattern}
    IN  IF at = {} THEN 0 - 1 ELSE CHOOSE i \in at : \A j \in at : i <= j

\* String.prototype.substring with one argument.
Substring(s, from) ==
    LET start == IF from < 0 THEN 0 ELSE IF from > Len(s) THEN Len(s) ELSE from
    IN  SubSeq(s, start + 1, Len(s))

\* What FileReader.readAsDataURL leaves in result: data:<type>;base64,<content>.
DataUrl(file) == <<"d", "a", "t", "a", ":">> \o file.type \o Base64Mark \o file.base64

\* $("#"+idInputFile).val(): the value of the file input of the page.
InputVal(idInputFile) ==
    IF idInputFile = "fileInput" THEN Str(<<"C:\\fakepath\\chosen.txt">>) ELSE Undefined

\* $.each(fields, ...), lines 274-280.
FieldInformationOf(values) ==
    <<"<FieldInformation Type='">> \o JsToString(ValueAt(values, 1))
        \o <<"' DisplayName='">> \o JsToString(ValueAt(values, 2))
        \o <<"' InternalName='">> \o JsToString(ValueAt(values, 3))
        \o <<"' Value='">> \o JsToString(ValueAt(values, 4)) \o <<"'/>">>

FieldInformation(fields) == Concat([i \in DOMAIN fields |-> FieldInformationOf(fields[i])])

EnvelopeOpen == "<soap:Envelope><soap:Body><CopyIntoItems>"
EnvelopeClose == "</CopyIntoItems></soap:Body></soap:Envelope>"

\* var soapEnv, lines 287-302 (the white space of the literal left out).
SoapEnv(path, urlSite, lName, filename, fieldInformation, stream) ==
    <<EnvelopeOpen, "<SourceUrl>">> \o JsToString(path) \o <<"</SourceUrl>">>
        \o <<"<DestinationUrls>", "<string>">>
        \o JsToString(urlSite) \o <<"/">> \o JsToString(lName) \o <<"/">> \o JsToString(filename)
        \o <<"</string>", "</DestinationUrls>">>
        \o <<"<Fields>">> \o fieldInformation \o <<"</Fields>">>
        \o <<"<Stream>">> \o stream \o <<"</Stream>", EnvelopeClose>>

CopyAsmx(urlSite) == JsToString(urlSite) \o <<"/_vti_bin/Copy.asmx">>

Truthy(v) == v.type \notin {"undefined", "null"} /\ v # Bool(FALSE)

Entry(kind, call, post) == [kind |-> kind, call |-> call, post |-> post]

\* The error option with the success callback called too.
AjaxErrorBoth(closure, call, post) ==
    <<IF Truthy(closure.successCallback) THEN Entry("successCallback", call, post)
      ELSE Entry("console.log", call, post),
      IF Truthy(closure.errorCallback) THEN Entry("errorCallback", call, post)
      ELSE Entry("console.log", call, post)>>

\* success: function() {...}, lines 310-315.
AjaxSuccessOption(closure, call, post) ==
    <<IF Truthy(closure.successCallback) THEN Entry("successCallback", call, post)
      ELSE Entry("console.log", call, post)>>

\* error: function(response) {...}, lines 316-321.
AjaxErrorOption(closure, call, post) ==
    <<IF Truthy(closure.errorCallback) THEN Entry("errorCallback", call, post)
      ELSE Entry("console.log", call, post)>>

\* filereader.onload of the call `call`, lines 283-324, run once the readers are
\* `rs`.  It reads the result of the reader the global names; a result of
\* null makes data.indexOf throw, which ends the handler.
OnLoad(call, rs) ==
    LET closure == uploads[call]
        result == rs[filereader].result
        at == IndexOf(result.chars, Base64Mark) + 8
        stream == Substring(result.chars, at)
    IN  IF result.type # "string"
        THEN /\ data' = result
             /\ log' = Append(log, Entry("TypeError", call, 0))
             /\ UNCHANGED <<n, posts>>
        ELSE /\ n' = Num(at)
             /\ data' = Str(stream)
             /\ posts' = Append(posts,
                    [call |-> call, reader |-> filereader,
                     url |-> CopyAsmx(closure.urlSite), type |-> "POST",
                     data |-> SoapEnv(closure.path, closure.urlSite, closure.lName,
                                      closure.filename, closure.fieldInformation, stream),
                     state |-> "sent"])
             /\ UNCHANGED log

programVars == <<isAsync, last, pending, done>>

\* uploadFile up to and with filereader.readAsDataURL(file), line 325.
uploadFile(urlSite, lName, idInputFile, fields, filename, file, successCallback, errorCallback) ==
    /\ stack = 0
    /\ Len(uploads) < MaxUploads
    /\ uploads' = Append(uploads,
          [path |-> InputVal(idInputFile), fieldInformation |-> FieldInformation(fields),
           urlSite |-> urlSite, lName |-> lName, filename |-> filename,
           successCallback |-> successCallback, errorCallback |-> errorCallback])
    /\ readers' = Append(readers,
          [filename |-> filename, onload |-> Len(uploads) + 1, file |-> file,
           readyState |-> "LOADING", result |-> Null])
    /\ filereader' = Len(readers) + 1
    /\ stack' = Len(uploads) + 1
    /\ UNCHANGED <<data, n, posts, log, programVars, serviceVars>>

\* uploadFile returns (undefined); the event loop is free again.
uploadFileReturn ==
    /\ stack # 0
    /\ stack' = 0
    /\ UNCHANGED <<filereader, readers, uploads, data, n, posts, log, programVars, serviceVars>>

\* The read of reader r ends well: its result is set and its load event runs
\* the onload handler.
ReaderLoad(r) ==
    LET rs == [readers EXCEPT ![r].readyState = "DONE",
                              ![r].result = Str(DataUrl(readers[r].file))]
    IN  /\ stack = 0
        /\ readers[r].readyState = "LOADING"
        /\ readers' = rs
        /\ OnLoad(readers[r].onload, rs)
        /\ UNCHANGED <<filereader, uploads, stack, programVars, serviceVars>>

\* The read of reader r fails: no load event (the code sets no onerror).
ReaderError(r) ==
    /\ stack = 0
    /\ readers[r].readyState = "LOADING"
    /\ readers' = [readers EXCEPT ![r].readyState = "DONE"]
    /\ UNCHANGED <<filereader, uploads, stack, data, n, posts, log, programVars, serviceVars>>

\* $.ajax calls exactly one of success and error when the request ends.
AjaxSuccess(p) ==
    /\ stack = 0
    /\ posts[p].state = "sent"
    /\ posts' = [posts EXCEPT ![p].state = "success"]
    /\ log' = log \o AjaxSuccessOption(uploads[posts[p].call], posts[p].call, p)
    /\ UNCHANGED <<filereader, readers, uploads, stack, data, n, programVars, serviceVars>>

AjaxError(p) ==
    /\ stack = 0
    /\ posts[p].state = "sent"
    /\ posts' = [posts EXCEPT ![p].state = "error"]
    /\ log' = log \o AjaxErrorOption(uploads[posts[p].call], posts[p].call, p)
    /\ UNCHANGED <<filereader, readers, uploads, stack, data, n, programVars, serviceVars>>

TextPlain == <<"t", "e", "x", "t", "/", "p", "l", "a", "i", "n">>
FileA == [type |-> TextPlain, base64 |-> <<"Q", "Q", "=", "=">>]
FileB == [type |-> <<>>, base64 |-> <<"Q", "g", "=", "=">>]
UploadArguments ==
    {[file |-> FileA, filename |-> Str(<<"a.txt">>),
      fields |-> <<<<Str(<<"Number">>), Str(<<"EmployeeID">>), Str(<<"EmployeeID">>), Num(152)>>>>],
     [file |-> FileB, filename |-> Str(<<"b.txt">>), fields |-> <<>>]}
SiteUrls == {Str(<<"http://site">>)}
LibraryNames == {Str(<<"Docs">>)}

NextUpload ==
    \/ \E a \in UploadArguments, urlSite \in SiteUrls, lName \in LibraryNames,
          successCallback \in Callbacks, errorCallback \in Callbacks :
          uploadFile(urlSite, lName, "fileInput", a.fields, a.filename, a.file,
                     successCallback, errorCallback)
    \/ uploadFileReturn
    \/ \E r \in DOMAIN readers : ReaderLoad(r)
    \/ \E r \in DOMAIN readers : ReaderError(r)
    \/ \E p \in DOMAIN posts : AjaxSuccess(p)
    \/ \E p \in DOMAIN posts : AjaxError(p)

SpecUpload == Init /\ [][NextUpload]_vars

Invoked(kind, p) == Cardinality({i \in DOMAIN log : log[i].kind = kind /\ log[i].post = p})
CallbackKinds == {"successCallback", "errorCallback"}

\* C9: while uploadFile runs, no request of the call is posted and no callback
\* of it invoked; a request is posted only once the read of its call's file is
\* done; a request in flight has had no callback, and an ended one has had its
\* success callback once exactly when it succeeded and that callback was given,
\* its error callback once exactly when it failed and that callback was given,
\* never both; no callback is invoked but for a posted request.
C9_UploadCallbacks ==
    /\ stack # 0 =>
          /\ \A p \in DOMAIN posts : posts[p].call # stack
          /\ \A i \in DOMAIN log : log[i].call # stack
    /\ \A p \in DOMAIN posts :
          LET closure == uploads[posts[p].call]
              reader == readers[posts[p].call]
              s == Invoked("successCallback", p)
              e == Invoked("errorCallback", p)
          IN  /\ reader.readyState = "DONE" /\ reader.result.type = "string"
              /\ s + e <= 1
              /\ s = 1 <=> (posts[p].state = "success" /\ closure.successCallback = Handler)
              /\ e = 1 <=> (posts[p].state = "error" /\ closure.errorCallback = Handler)
    /\ \A i \in DOMAIN log :
          log[i].kind \in CallbackKinds =>
             /\ log[i].post \in DOMAIN posts
             /\ posts[log[i].post].call = log[i].call

C9_Witness ==
    /\ Len(posts) = 2
    /\ posts[1].state = "success" /\ posts[2].state = "error"
    /\ \A c \in DOMAIN uploads :
          uploads[c].successCallback = Handler /\ uploads[c].errorCallback = Handler
    /\ Invoked("successCallback", 1) = 1
    /\ Invoked("errorCallback", 2) = 1

(***************************************************************************)
(* getListItems with and without a completion handler, over field lists    *)
(* that name a field twice and rows that lack a requested attribute or     *)
(* carry one that was not requested.                                       *)
(***************************************************************************)
KeyFieldLists == {<<"Title", "ID", "Title">>}
KeyRow(i) ==
    CASE i % 3 = 1 -> Row([a \in {"ows_ID"} |-> <<"1">>])
      [] i % 3 = 2 -> Row([ows_ID |-> <<"2">>, ows_Title |-> <<"y">>, ows_Status |-> <<"z">>])
      [] OTHER -> Row([ows_ID |-> <<"3">>, ows_Title |-> <<"x">>])
KeyDocuments == {Xml([i \in 1..k |-> KeyRow(i)]) : k \in 0..MaxRows}
KeyStatuses == {"success", "error"}
KeyResponses ==
    {NeverCompleted} \cup {Completed(xml, status) : xml \in KeyDocuments, status \in KeyStatuses}

NextKeys ==
    \/ \E lName \in ListNames, fields \in KeyFieldLists, callback \in Callbacks,
          resp \in KeyResponses :
          getListItems(lName, fields, Undefined, callback, resp)
    \/ \E id \in DOMAIN pending, xml \in KeyDocuments, Status \in KeyStatuses :
          GetListItemsComplete(id, xml, Status)

SpecKeys == Init /\ [][NextKeys]_vars

\* The row objects a value holds: those of an array, the object itself, none.
RowObjects(value) ==
    IF value.type = "array" THEN value.items
    ELSE IF value.type = "object" THEN <<value>> ELSE <<>>

\* The z:row elements of a response that came with status "success".
ReturnedRows(ran, responseXML, Status) ==
    IF ran /\ Status = "success" THEN SPFilterNode(JQuery(responseXML), "z:row") ELSE <<>>

KeysAsRequested(objects, fields, rows) ==
    /\ Len(objects) = Len(rows)
    /\ \A i \in DOMAIN objects : DOMAIN objects[i].props = Range(fields)

\* C11: every row object getListItems returns or passes to the completion
\* handler has as its keys exactly the requested field names, one key for each
\* distinct name, also when the row of the response lacks an attribute for one
\* of them or carries others, and there are as many row objects as the response
\* has rows.
C11_KeysRequestedArePresent ==
    /\ (last.fn = "getListItems" /\ last.callback = Undefined) =>
          KeysAsRequested(RowObjects(last.ret), last.fields,
                          ReturnedRows(last.resp.ran,
                                       IF last.resp.ran THEN last.resp.responseXML ELSE Undefined,
                                       IF last.resp.ran THEN last.resp.Status ELSE "none"))
    /\ \A id \in DOMAIN done :
          \A c \in DOMAIN done[id].calls :
             KeysAsRequested(RowObjects(done[id].calls[c]), done[id].fields,
                             ReturnedRows(TRUE, done[id].responseXML, done[id].Status))

C11_Witness ==
    /\ last.fn = "getListItems" /\ last.callback = Undefined
    /\ last.fields = <<"Title", "ID", "Title">>
    /\ last.ret.type = "object"
    /\ last.ret.props["Title"] = Undefined
    /\ \E id \in DOMAIN done :
          /\ done[id].calls # <<>>
          /\ done[id].fields = <<"Title", "ID", "Title">>
          /\ Len(done[id].calls[1].items) = 2
          /\ done[id].calls[1].items[1].props["Title"] = Undefined
          /\ "ows_Status" \in DOMAIN done[id].responseXML.nodes[2].attrs

(***************************************************************************)
(* Every function of the library called while getListItems requests with a *)
(* completion handler are pending.                                         *)
(***************************************************************************)
ModeArguments == {[fields |-> <<"ID", "Title">>, values |-> <<Num(7), Str(<<"x">>)>>]}
ModeUpdateResponses ==
    {NeverCompleted, Completed(Undefined, "error"),
     Completed(Xml(<<ErrorCode(ZeroErrorCode), Row([a \in {"ows_ID"} |-> <<"7">>])>>), "success")}
ModeDeleteFileResponses ==
    {NeverCompleted, Completed(Undefined, "error"), Completed(Xml(<<ErrorCode(ZeroErrorCode)>>), "success")}
ModeUserResponses ==
    {NeverCompleted, Completed(Undefined, "error"),
     Completed(Xml(<<Node("User", [ID |-> <<"3">>, Name |-> <<"John Doe">>], <<>>)>>), "success")}
ModeFieldLists == {<<"ID", "Title">>}

NextModes ==
    \/ \E lName \in ListNames, a \in ModeArguments, resp \in ModeUpdateResponses :
          createNewListItem(lName, a.fields, a.values, resp)
    \/ \E lName \in ListNames, a \in ModeArguments, resp \in ModeUpdateResponses :
          updateListItem(lName, a.fields, a.values, resp)
    \/ \E lName \in ListNames, id \in ItemIds, resp \in ModeUpdateResponses :
          deleteListItem(lName, id, resp)
    \/ \E lName \in ListNames, filePath \in FilePaths, id \in ItemIds,
          resp \in ModeDeleteFileResponses :
          deleteFile(lName, filePath, id, resp)
    \/ \E resp \in ModeUserResponses : getCurrentUser(resp)
    \/ \E lName \in ListNames, fields \in ModeFieldLists, callback \in Callbacks,
          resp \in KeyResponses :
          getListItems(lName, fields, Undefined, callback, resp)
    \/ \E id \in DOMAIN pending, xml \in KeyDocuments, Status \in KeyStatuses :
          GetListItemsComplete(id, xml, Status)

SpecModes == Init /\ [][NextModes]_vars

SynchronousFunctions ==
    {"createNewListItem", "updateListItem", "deleteListItem", "deleteFile", "getCurrentUser"}

\* C12: createNewListItem, updateListItem, deleteListItem, deleteFile and
\* getCurrentUser issue a synchronous request and leave none to complete after
\* they return; getListItems issues an asynchronous request exactly when a
\* completion handler is given, and then returns false whatever rows the
\* response carries later, the rows going to the handler alone; without a
\* handler its request is synchronous and no handler is called.
C12_ModesNotMixed ==
    /\ last.fn \in SynchronousFunctions => last.request.async = FALSE
    /\ \A id \in DOMAIN pending : pending[id].fn \notin SynchronousFunctions
    /\ \A id \in DOMAIN done : done[id].fn \notin SynchronousFunctions
    /\ last.fn = "getListItems" =>
          /\ last.request.async <=> last.callback = Handler
          /\ last.callback = Handler => last.ret = Bool(FALSE)
          /\ last.callback = Undefined => last.calls = <<>>
    /\ \A id \in DOMAIN pending :
          pending[id].fn = "getListItems" =>
             pending[id].request.async /\ pending[id].ret = Bool(FALSE)
    /\ \A id \in DOMAIN done :
          done[id].fn = "getListItems" =>
             /\ done[id].request.async
             /\ done[id].ret = Bool(FALSE)
             /\ \A c \in DOMAIN done[id].calls :
                   done[id].calls[c] = Arr(ParseRows(done[id].responseXML, done[id].fields))

C12_Witness ==
    /\ last.fn \in SynchronousFunctions
    /\ last.resp.ran
    /\ \E id \in DOMAIN done :
          /\ done[id].fn = "getListItems"
          /\ done[id].Status = "success"
          /\ Len(SPFilterNode(JQuery(done[id].responseXML), "z:row")) = 2
          /\ done[id].calls # <<>>
          /\ done[id].ret = Bool(FALSE)
    /\ pending # <<>>

(***************************************************************************)
(* What a posted copy-file request holds.                                  *)
(***************************************************************************)
FirstAt(s, chunk) == CHOOSE i \in DOMAIN s : s[i] = chunk /\ \A j \in 1..(i - 1) : s[j] # chunk
Between(s, open, close) == SubSeq(s, FirstAt(s, open) + 1, FirstAt(s, close) - 1)

\* C13: with uploadFile called again before the read of an earlier call is
\* done, every posted request holds the base64 content of the file of its own
\* call, its own destination (site, library and file name) and its own field
\* information, and is built from the result of its own call's reader, whose
\* read is done.
C13_UploadsIsolated ==
    \A p \in DOMAIN posts :
        LET call == posts[p].call
            closure == uploads[call]
        IN  /\ Between(posts[p].data, "<Stream>", "</Stream>") = readers[call].file.base64
            /\ Between(posts[p].data, "<string>", "</string>") =
                  JsToString(closure.urlSite) \o <<"/">> \o JsToString(closure.lName)
                      \o <<"/">> \o JsToString(closure.filename)
            /\ Between(posts[p].data, "<Fields>", "</Fields>") = closure.fieldInformation
            /\ posts[p].reader = call
            /\ readers[posts[p].reader].readyState = "DONE"

=============================================================================
